---- MODULE Spec2Model ----
(***************************************************************************)
(* allocator-fallback: the Allocator trait with its provided methods       *)
(* (allocate_zeroed, grow, grow_zeroed, shrink), the forwarding impl for   *)
(* &A, and the Global allocator (src/src/fallback.rs), driven by a caller  *)
(* like the crate's test (src/src/lib.rs).                                 *)
(*                                                                         *)
(* Memory is a heap of blocks.  Every provided method is one action that   *)
(* runs the method's statements in the order the source gives them, on a   *)
(* machine record [heap, log, status]; the log lists the memory events of  *)
(* the call (allocate, read, write, deallocate, return) in program order.  *)
(* What the environment decides (the allocator's answer, the content of    *)
(* fresh memory, what an out-of-bounds access does) is drawn with \E.      *)
(***************************************************************************)
EXTENDS Integers, Sequences, FiniteSets, TLC

\* Largest Layout size the caller asks for.
MaxSize == 2
\* Largest number of bytes an allocator commits beyond layout.size().
MaxExtra == 1
\* Deepest reference nesting the caller uses: (&&&Global).deallocate(..).
MaxRef == 3

\* u8 abstracted to zero / non-zero: the algorithms only move bytes and
\* write the constant 0_u8, they never compute with a byte's value.
Byte == {0, 1}
\* Two block addresses, both aligned for every Layout of the model: a
\* provided resize method holds exactly two blocks, the old and the new.
Addr == {2, 4}
NullPtr == 0
Aligns == {1, 2}
Layout == [size : 0..MaxSize, align : Aligns]
NoLayout == [size |-> 0, align |-> 1]

\* The allocators of the model: Global, a conforming allocator that gives
\* only the two required methods, and one that also overrides grow.
Allocators == {"Global", "Custom", "InPlace"}

VARIABLES
    alloc,   \* the allocator A the caller uses
    heap,    \* Addr -> block: the memory the allocator has handed out
    status,  \* "running", "panic" (failed assert!), "fault" (wild access)
    pc,      \* "idle": between calls; "returned": a call has just returned
    call,    \* the call that has just returned
    env,     \* what the environment answered during that call
    pre,     \* the heap when that call was made
    ret,     \* the call's result
    log      \* the memory events of that call, in program order

vars == <<alloc, heap, status, pc, call, env, pre, ret, log>>

----------------------------------------------------------------------------
(* Values *)

NoBlock == [live |-> FALSE, layout |-> NoLayout, bytes |-> <<>>]
Block(layout, bytes) == [live |-> TRUE, layout |-> layout, bytes |-> bytes]

\* Result<NonNull<[u8]>, AllocError>
Err == [ok |-> FALSE, ptr |-> NullPtr, len |-> 0]
Ok(ptr, len) == [ok |-> TRUE, ptr |-> ptr, len |-> len]
\* the () that deallocate returns
Unit == [ok |-> TRUE, ptr |-> NullPtr, len |-> 0]

Ev(e, ptr, layout, off, n, ok) ==
    [e |-> e, ptr |-> ptr, layout |-> layout, off |-> off, n |-> n, ok |-> ok]

Live(h) == {a \in Addr : h[a].live}
Free(h) == Addr \ Live(h)
EmptyHeap == [a \in Addr |-> NoBlock]

Machine(h) == [heap |-> h, log |-> <<>>, status |-> "running"]
Emit(m, ev) == [m EXCEPT !.log = Append(@, ev)]
Stop(m, how) == [m EXCEPT !.status = how]

\* What an access outside live memory does: the process faults, or the
\* access goes through and reads whatever byte lies there.
UBOutcomes == {[fault |-> TRUE, byte |-> 0]} \cup
              {[fault |-> FALSE, byte |-> b] : b \in Byte}
NoUB == [fault |-> FALSE, byte |-> 0]

NullAns == [null |-> TRUE, addr |-> NullPtr, bytes |-> <<>>]
\* Only the minimal allocator commits more than it was asked for.
Extras(a) == IF a = "Custom" THEN 0..MaxExtra ELSE {0}
\* The answers an allocator may give to a request: failure, or a free
\* address with at least layout.size() bytes of arbitrary content.
AllocAnswers(a, h, layout) ==
    {NullAns} \cup
    {[null |-> FALSE, addr |-> p, bytes |-> j] :
        p \in Free(h),
        j \in UNION {[1..(layout.size + x) -> Byte] : x \in Extras(a)}}

----------------------------------------------------------------------------
(* The memory primitives the methods are written in *)

Running(m) == m.status = "running"

\* The allocator's own bookkeeping for a request it was asked: nothing on
\* failure, a fresh live block at the answered address on success.
SysAlloc(m, layout, ans) ==
    IF ans.null
    THEN [m |-> Emit(m, Ev("allocate", NullPtr, layout, 0, 0, TRUE)),
          ptr |-> NullPtr]
    ELSE [m |-> Emit([m EXCEPT !.heap[ans.addr] = Block(layout, ans.bytes)],
                     Ev("allocate", ans.addr, layout, 0, Len(ans.bytes), TRUE)),
          ptr |-> ans.addr]

\* Releasing a block: defined only for a live block with its own layout.
SysDealloc(m, ptr, layout) ==
    LET ok == m.heap[ptr].live /\ m.heap[ptr].layout = layout
        m1 == Emit(m, Ev("deallocate", ptr, layout, 0, 0, ok))
    IN  IF ~Running(m) THEN m
        ELSE IF ok THEN [m1 EXCEPT !.heap[ptr] = NoBlock]
        ELSE Stop(m1, "fault")

\* dst.copy_from_nonoverlapping(src, n): reads offsets [0, n) of src and
\* writes them to offsets [0, n) of dst.  An offset outside the live bytes
\* of its block is undefined behaviour: ub says what the build does there.
MemCopy(m, dst, src, n, ub) ==
    LET s == m.heap[src]
        d == m.heap[dst]
        rok == n = 0 \/ (s.live /\ n <= Len(s.bytes))
        wok == n = 0 \/ (d.live /\ n <= Len(d.bytes))
        data(i) == IF s.live /\ i <= Len(s.bytes) THEN s.bytes[i] ELSE ub.byte
        m1 == Emit(Emit(m, Ev("read", src, NoLayout, 0, n, rok)),
                   Ev("write", dst, NoLayout, 0, n, wok))
    IN  IF ~Running(m) THEN m
        ELSE IF (~rok \/ ~wok) /\ ub.fault THEN Stop(m1, "fault")
        ELSE [m1 EXCEPT !.heap[dst].bytes =
                [i \in 1..Len(d.bytes) |-> IF i <= n THEN data(i) ELSE d.bytes[i]]]

\* dst.add(off).write_bytes(0_u8, n).  n is a usize: a negative n is a
\* subtraction that overflowed, which panics (debug) or wraps to a huge
\* count that runs off the block (release).
MemZero(m, dst, off, n, ub) ==
    LET d == m.heap[dst]
        wok == n >= 0 /\ (n = 0 \/ (d.live /\ off + n <= Len(d.bytes)))
        m1 == Emit(m, Ev("write", dst, NoLayout, off, n, wok))
    IN  IF ~Running(m) THEN m
        ELSE IF n < 0 THEN Stop(m1, IF ub.fault THEN "fault" ELSE "panic")
        ELSE IF ~wok /\ ub.fault THEN Stop(m1, "fault")
        ELSE [m1 EXCEPT !.heap[dst].bytes =
                [i \in 1..Len(d.bytes) |->
                    IF off < i /\ i <= off + n THEN 0 ELSE d.bytes[i]]]

\* The end of a method: the value is handed back only if the process is
\* still running.
Done(m, r) ==
    IF Running(m)
    THEN [m |-> Emit(m, Ev("return", r.ptr, NoLayout, 0, r.len, r.ok)), ret |-> r]
    ELSE [m |-> m, ret |-> Err]

----------------------------------------------------------------------------
(* The required methods of each allocator *)

\* Mutant: the assertion on the size is missing.
GlobalAllocateNoAssert(m, layout, ans) ==
    LET r == SysAlloc(m, layout, ans)
    IN  IF r.ptr = NullPtr
        THEN [m |-> r.m, ret |-> Err]
        ELSE [m |-> r.m, ret |-> Ok(r.ptr, layout.size)]

\* impl Allocator for Global: allocate
GlobalAllocate(m, layout, ans) ==
    IF layout.size = 0
    THEN [m |-> Stop(Emit(m, Ev("assert", NullPtr, layout, 0, 0, FALSE)), "panic"),
          ret |-> Err]
    ELSE LET r == SysAlloc(m, layout, ans)
         IN  IF r.ptr = NullPtr
             THEN [m |-> r.m, ret |-> Err]
             ELSE [m |-> r.m, ret |-> Ok(r.ptr, layout.size)]

\* impl Allocator for Global: deallocate
GlobalDeallocate(m, ptr, layout) == SysDealloc(m, ptr, layout)

\* A conforming allocator's allocate: the block it reports is the memory
\* it committed, which may be longer than layout.size().
CustomAllocate(m, layout, ans) ==
    LET r == SysAlloc(m, layout, ans)
    IN  IF r.ptr = NullPtr
        THEN [m |-> r.m, ret |-> Err]
        ELSE [m |-> r.m, ret |-> Ok(r.ptr, Len(ans.bytes))]

CustomDeallocate(m, ptr, layout) == SysDealloc(m, ptr, layout)

\* A::allocate and A::deallocate for the allocator a
BaseAllocate(a, m, layout, ans) ==
    IF a = "Global" THEN GlobalAllocate(m, layout, ans)
    ELSE CustomAllocate(m, layout, ans)

BaseDeallocate(a, m, ptr, layout) ==
    IF a = "Global" THEN GlobalDeallocate(m, ptr, layout)
    ELSE CustomDeallocate(m, ptr, layout)

\* impl Allocator for &A: a reference at level via forwards to level via-1.
RECURSIVE Allocate(_, _, _, _, _)
Allocate(a, via, m, layout, ans) ==
    IF via = 0 THEN BaseAllocate(a, m, layout, ans)
    ELSE Allocate(a, via - 1, m, layout, ans)

RECURSIVE Deallocate(_, _, _, _, _)
Deallocate(a, via, m, ptr, layout) ==
    IF via = 0 THEN BaseDeallocate(a, m, ptr, layout)
    ELSE Deallocate(a, via - 1, m, ptr, layout)

----------------------------------------------------------------------------
(* The provided methods of the trait, called on self = a reference of     *)
(* level via to the allocator a; e = [ans, ub] is the environment.        *)

\* Mutant: zeroes layout.size() bytes, not the returned length.
DefaultAllocateZeroedRequested(a, via, m, layout, e) ==
    LET r == Allocate(a, via, m, layout, e.ans)
    IN  IF ~Running(r.m) \/ ~r.ret.ok THEN Done(r.m, Err)
        ELSE Done(MemZero(r.m, r.ret.ptr, 0, layout.size, e.ub), r.ret)

DefaultAllocateZeroed(a, via, m, layout, e) ==
    LET r == Allocate(a, via, m, layout, e.ans)
    IN  IF ~Running(r.m) \/ ~r.ret.ok THEN Done(r.m, Err)
        ELSE Done(MemZero(r.m, r.ret.ptr, 0, r.ret.len, e.ub), r.ret)

\* Mutant: releases the old block when the allocation fails.
DefaultGrowFreesOnFailure(a, via, m, ptr, old_layout, new_layout, e) ==
    LET r == Allocate(a, via, m, new_layout, e.ans)
    IN  IF ~Running(r.m) \/ ~r.ret.ok
        THEN Done(Deallocate(a, via, r.m, ptr, old_layout), Err)
        ELSE LET m1 == MemCopy(r.m, r.ret.ptr, ptr, old_layout.size, e.ub)
                 m2 == Deallocate(a, via, m1, ptr, old_layout)
             IN  Done(m2, r.ret)

\* Mutant: copies new_layout.size() bytes.
DefaultGrowCopiesNew(a, via, m, ptr, old_layout, new_layout, e) ==
    LET r == Allocate(a, via, m, new_layout, e.ans)
    IN  IF ~Running(r.m) \/ ~r.ret.ok THEN Done(r.m, Err)
        ELSE LET m1 == MemCopy(r.m, r.ret.ptr, ptr, new_layout.size, e.ub)
                 m2 == Deallocate(a, via, m1, ptr, old_layout)
             IN  Done(m2, r.ret)

\* Mutant: releases the old block before copying out of it.
DefaultGrowFreesFirst(a, via, m, ptr, old_layout, new_layout, e) ==
    LET r == Allocate(a, via, m, new_layout, e.ans)
    IN  IF ~Running(r.m) \/ ~r.ret.ok THEN Done(r.m, Err)
        ELSE LET m1 == Deallocate(a, via, r.m, ptr, old_layout)
                 m2 == MemCopy(m1, r.ret.ptr, ptr, old_layout.size, e.ub)
             IN  Done(m2, r.ret)

DefaultGrow(a, via, m, ptr, old_layout, new_layout, e) ==
    LET r == Allocate(a, via, m, new_layout, e.ans)
    IN  IF ~Running(r.m) \/ ~r.ret.ok THEN Done(r.m, Err)
        ELSE LET m1 == MemCopy(r.m, r.ret.ptr, ptr, old_layout.size, e.ub)
                 m2 == Deallocate(a, via, m1, ptr, old_layout)
             IN  Done(m2, r.ret)

\* Mutant: zeroes up to new_layout.size(), not up to the returned length.
DefaultGrowZeroedRequested(a, via, m, ptr, old_layout, new_layout, e) ==
    LET r == Allocate(a, via, m, new_layout, e.ans)
    IN  IF ~Running(r.m) \/ ~r.ret.ok THEN Done(r.m, Err)
        ELSE LET m1 == MemCopy(r.m, r.ret.ptr, ptr, old_layout.size, e.ub)
                 m2 == MemZero(m1, r.ret.ptr, old_layout.size,
                               new_layout.size - old_layout.size, e.ub)
                 m3 == Deallocate(a, via, m2, ptr, old_layout)
             IN  Done(m3, r.ret)

DefaultGrowZeroed(a, via, m, ptr, old_layout, new_layout, e) ==
    LET r == Allocate(a, via, m, new_layout, e.ans)
    IN  IF ~Running(r.m) \/ ~r.ret.ok THEN Done(r.m, Err)
        ELSE LET len == r.ret.len
                 m1 == MemCopy(r.m, r.ret.ptr, ptr, old_layout.size, e.ub)
                 m2 == MemZero(m1, r.ret.ptr, old_layout.size,
                               len - old_layout.size, e.ub)
                 m3 == Deallocate(a, via, m2, ptr, old_layout)
             IN  Done(m3, r.ret)

\* Mutant: the copy runs from the new block to the old one.
DefaultShrinkSwapped(a, via, m, ptr, old_layout, new_layout, e) ==
    LET r == Allocate(a, via, m, new_layout, e.ans)
    IN  IF ~Running(r.m) \/ ~r.ret.ok THEN Done(r.m, Err)
        ELSE LET len == r.ret.len
                 m1 == MemCopy(r.m, ptr, r.ret.ptr, len, e.ub)
                 m2 == Deallocate(a, via, m1, ptr, old_layout)
             IN  Done(m2, r.ret)

\* Mutant: releases the new block instead of the old one.
DefaultShrinkFreesNew(a, via, m, ptr, old_layout, new_layout, e) ==
    LET r == Allocate(a, via, m, new_layout, e.ans)
    IN  IF ~Running(r.m) \/ ~r.ret.ok THEN Done(r.m, Err)
        ELSE LET len == r.ret.len
                 m1 == MemCopy(r.m, r.ret.ptr, ptr, len, e.ub)
                 m2 == Deallocate(a, via, m1, r.ret.ptr, new_layout)
             IN  Done(m2, r.ret)

DefaultShrink(a, via, m, ptr, old_layout, new_layout, e) ==
    LET r == Allocate(a, via, m, new_layout, e.ans)
    IN  IF ~Running(r.m) \/ ~r.ret.ok THEN Done(r.m, Err)
        ELSE LET len == r.ret.len
                 m1 == MemCopy(r.m, r.ret.ptr, ptr, len, e.ub)
                 m2 == Deallocate(a, via, m1, ptr, old_layout)
             IN  Done(m2, r.ret)

\* An allocator's own grow, overriding the provided one: the block is
\* resized where it lies, nothing is allocated or released.
InPlaceGrow(a, via, m, ptr, old_layout, new_layout, e) ==
    LET old == m.heap[ptr].bytes
        n == IF Len(e.ans.bytes) > Len(old) THEN Len(e.ans.bytes) ELSE Len(old)
        bytes == [i \in 1..n |-> IF i <= Len(old) THEN old[i] ELSE e.ans.bytes[i]]
    IN  IF e.ans.null THEN Done(m, Err)
        ELSE Done(Emit([m EXCEPT !.heap[ptr] = Block(new_layout, bytes)],
                       Ev("resize", ptr, new_layout, 0, n, TRUE)),
                  Ok(ptr, n))

\* Method resolution.  &A implements allocate and deallocate only, so on a
\* reference every other method is the trait's provided one; on the
\* allocator itself it is the allocator's own where it overrides.
AllocateZeroed(a, via, m, layout, e) ==
    DefaultAllocateZeroed(a, via, m, layout, e)

Grow(a, via, m, ptr, old_layout, new_layout, e) ==
    IF via = 0 /\ a = "InPlace"
    THEN InPlaceGrow(a, via, m, ptr, old_layout, new_layout, e)
    ELSE DefaultGrow(a, via, m, ptr, old_layout, new_layout, e)

GrowZeroed(a, via, m, ptr, old_layout, new_layout, e) ==
    DefaultGrowZeroed(a, via, m, ptr, old_layout, new_layout, e)

Shrink(a, via, m, ptr, old_layout, new_layout, e) ==
    DefaultShrink(a, via, m, ptr, old_layout, new_layout, e)

----------------------------------------------------------------------------
(* The caller *)

Refs == 0..MaxRef
NoCall == [op |-> "none", via |-> 0, ptr |-> NullPtr, old |-> NoLayout, new |-> NoLayout]
Call(op, via, ptr, old, new) ==
    [op |-> op, via |-> via, ptr |-> ptr, old |-> old, new |-> new]
NoEnv == [ans |-> NullAns, ub |-> NoUB]
Asked(l) == \E i \in 1..Len(l) : l[i].e = "allocate"
Wild(l) == \E i \in 1..Len(l) : l[i].e \in {"read", "write"} /\ ~l[i].ok
\* The environment of a call: the allocator's answer, and, if the call
\* makes an access outside live memory, what that access does.
Envs(a, h, layout) ==
    {[ans |-> x, ub |-> NoUB] : x \in AllocAnswers(a, h, layout)}
UBs(r) == IF Wild(r.m.log) THEN UBOutcomes ELSE {NoUB}
WithUB(e, u) == [e EXCEPT !.ub = u]


\* The state after a call: the machine the method left, its result, and
\* the record of the call (the parts of the environment the call never
\* consulted are not recorded).
Finish(c, e, r) ==
    /\ heap' = r.m.heap
    /\ status' = r.m.status
    /\ log' = r.m.log
    /\ ret' = r.ret
    /\ pre' = heap
    /\ call' = c
    /\ env' = [ans |-> IF Asked(r.m.log) \/ c.op = "grow" THEN e.ans ELSE NullAns,
               ub |-> IF Wild(r.m.log) THEN e.ub ELSE NoUB]
    /\ pc' = "returned"
    /\ UNCHANGED alloc

Ready == pc = "idle" /\ status = "running"

Init ==
    /\ alloc \in Allocators
    /\ heap = EmptyHeap
    /\ status = "running"
    /\ pc = "idle"
    /\ call = NoCall
    /\ env = NoEnv
    /\ pre = EmptyHeap
    /\ ret = Err
    /\ log = <<>>

\* The caller holds one block at a time: it allocates when it holds none.
CallAllocate ==
    /\ Ready /\ Live(heap) = {}
    /\ \E via \in Refs, layout \in Layout :
         \E e \in Envs(alloc, heap, layout) :
            LET r == Allocate(alloc, via, Machine(heap), layout, e.ans)
            IN  Finish(Call("allocate", via, NullPtr, NoLayout, layout), e,
                       Done(r.m, r.ret))

CallAllocateZeroed ==
    /\ Ready /\ Live(heap) = {}
    /\ \E via \in Refs, layout \in Layout :
         \E e \in Envs(alloc, heap, layout) :
         \E u \in UBs(AllocateZeroed(alloc, via, Machine(heap), layout, e)) :
            Finish(Call("allocate_zeroed", via, NullPtr, NoLayout, layout),
                   WithUB(e, u),
                   AllocateZeroed(alloc, via, Machine(heap), layout, WithUB(e, u)))

\* ptr.as_ptr().write(..): the caller writes into a block it holds.
Write ==
    /\ Ready
    /\ \E p \in Live(heap) : \E i \in 1..Len(heap[p].bytes), b \in Byte :
         heap' = [heap EXCEPT ![p].bytes[i] = b]
    /\ UNCHANGED <<alloc, status, pc, call, env, pre, ret, log>>

\* The caller passes a live block with its current layout.
CallDeallocate ==
    /\ Ready
    /\ \E via \in Refs, p \in Live(heap) :
         Finish(Call("deallocate", via, p, heap[p].layout, NoLayout), NoEnv,
                Done(Deallocate(alloc, via, Machine(heap), p, heap[p].layout), Unit))

CallGrow ==
    /\ Ready
    /\ \E via \in Refs, p \in Live(heap), new \in Layout :
         /\ new.size >= heap[p].layout.size
         /\ \E e \in Envs(alloc, heap, new) :
            \E u \in UBs(Grow(alloc, via, Machine(heap), p, heap[p].layout, new, e)) :
              Finish(Call("grow", via, p, heap[p].layout, new), WithUB(e, u),
                     Grow(alloc, via, Machine(heap), p, heap[p].layout, new,
                            WithUB(e, u)))

CallGrowZeroed ==
    /\ Ready
    /\ \E via \in Refs, p \in Live(heap), new \in Layout :
         /\ new.size >= heap[p].layout.size
         /\ \E e \in Envs(alloc, heap, new) :
            \E u \in UBs(GrowZeroed(alloc, via, Machine(heap), p, heap[p].layout, new, e)) :
              Finish(Call("grow_zeroed", via, p, heap[p].layout, new), WithUB(e, u),
                     GrowZeroed(alloc, via, Machine(heap), p, heap[p].layout, new,
                            WithUB(e, u)))

CallShrink ==
    /\ Ready
    /\ \E via \in Refs, p \in Live(heap), new \in Layout :
         /\ new.size <= heap[p].layout.size
         /\ \E e \in Envs(alloc, heap, new) :
            \E u \in UBs(Shrink(alloc, via, Machine(heap), p, heap[p].layout, new, e)) :
              Finish(Call("shrink", via, p, heap[p].layout, new), WithUB(e, u),
                     Shrink(alloc, via, Machine(heap), p, heap[p].layout, new,
                            WithUB(e, u)))

\* The caller takes the result and goes on.
Resume ==
    /\ pc = "returned" /\ status = "running"
    /\ pc' = "idle"
    /\ call' = NoCall
    /\ env' = NoEnv
    /\ pre' = EmptyHeap
    /\ ret' = Err
    /\ log' = <<>>
    /\ UNCHANGED <<alloc, heap, status>>

Next ==
    \/ CallAllocate
    \/ CallAllocateZeroed
    \/ Write
    \/ CallDeallocate
    \/ CallGrow
    \/ CallGrowZeroed
    \/ CallShrink
    \/ Resume

Spec == Init /\ [][Next]_vars

----------------------------------------------------------------------------
(* What the claims speak of, read off the state a call has returned to *)

ResizeOps == {"grow", "grow_zeroed", "shrink"}
\* The call ran a provided method of the trait, not an allocator's own.
IsDefault == ~(alloc = "InPlace" /\ call.via = 0 /\ call.op = "grow")
Kinds(l) == [i \in 1..Len(l) |-> l[i].e]
Count(l, e) == Cardinality({i \in 1..Len(l) : l[i].e = e})
AllocFailed(l) == \E i \in 1..Len(l) : l[i].e = "allocate" /\ l[i].ptr = NullPtr
Succeeded(op) ==
    pc = "returned" /\ call.op = op /\ IsDefault /\ status = "running" /\ ret.ok
OldBytes == pre[call.ptr].bytes
NewBytes == heap[ret.ptr].bytes

\* C1: when the allocate inside a provided grow, grow_zeroed or shrink
\* fails, the call returns AllocError, deallocate is not called, the old
\* block is neither read nor written, and the heap is what it was before
\* the call, with the old block still live.
FailureLeavesOldUntouched ==
    (pc = "returned" /\ call.op \in ResizeOps /\ IsDefault /\ AllocFailed(log)) =>
        /\ status = "running"
        /\ ret = Err
        /\ heap = pre
        /\ heap[call.ptr].live
        /\ \A i \in 1..Len(log) : log[i].e \notin {"deallocate", "read", "write"}

FailureLeavesOldUntouchedWitness ==
    /\ pc = "returned" /\ call.op = "shrink" /\ AllocFailed(log)
    /\ ret = Err
    /\ Len(heap[call.ptr].bytes) = 2 /\ heap[call.ptr].bytes[2] = 1

\* C2: a successful provided grow returns a block whose first
\* old_layout.size bytes are the old block's; exactly that many bytes are
\* copied, to offset 0, so the rest of the new block is as allocate left it.
GrowPreservesPrefix ==
    Succeeded("grow") =>
        /\ call.old.size <= Len(NewBytes)
        /\ \A i \in 1..call.old.size : NewBytes[i] = OldBytes[i]
        /\ \A i \in (call.old.size + 1)..Len(NewBytes) : NewBytes[i] = env.ans.bytes[i]

GrowPreservesPrefixWitness ==
    /\ Succeeded("grow")
    /\ call.old.size = 1 /\ call.new.size = 2
    /\ OldBytes[1] = 1 /\ env.ans.bytes[1] = 0 /\ NewBytes[1] = 1
    /\ Len(OldBytes) = 2 /\ OldBytes[2] # env.ans.bytes[2]

\* C3: after a successful provided grow_zeroed every byte from offset
\* old_layout.size up to the returned length is zero, also when the
\* returned length exceeds new_layout.size, and the first old_layout.size
\* bytes are the old block's.
GrowZeroedTail ==
    Succeeded("grow_zeroed") =>
        /\ call.old.size <= ret.len /\ ret.len <= Len(NewBytes)
        /\ \A i \in 1..call.old.size : NewBytes[i] = OldBytes[i]
        /\ \A i \in (call.old.size + 1)..ret.len : NewBytes[i] = 0

GrowZeroedTailWitness ==
    /\ Succeeded("grow_zeroed")
    /\ call.old.size = 1 /\ OldBytes[1] = 1
    /\ ret.len > call.new.size
    /\ env.ans.bytes[ret.len] = 1 /\ NewBytes[ret.len] = 0

\* C4: a successful provided shrink returns a block whose first
\* new_layout.size bytes are the first new_layout.size bytes the old block
\* held when the call was made.
ShrinkPreservesPrefix ==
    Succeeded("shrink") =>
        /\ call.new.size <= Len(NewBytes)
        /\ \A i \in 1..call.new.size : NewBytes[i] = OldBytes[i]

ShrinkPreservesPrefixWitness ==
    /\ Succeeded("shrink")
    /\ call.old.size = 2 /\ call.new.size = 1
    /\ OldBytes[1] = 1 /\ env.ans.bytes[1] = 0 /\ NewBytes[1] = 1

\* C5: for a layout of nonzero size the provided allocate_zeroed fails
\* exactly when allocate fails; when it succeeds it returns the very block
\* allocate returned, and every byte of it, over the whole returned length,
\* is zero.
ZeroFill ==
    (pc = "returned" /\ call.op = "allocate_zeroed" /\ call.new.size # 0) =>
        /\ status = "running"
        /\ ret.ok <=> ~AllocFailed(log)
        /\ ret = Allocate(alloc, call.via, Machine(pre), call.new, env.ans).ret
        /\ ret.ok =>
            /\ ret.len <= Len(NewBytes)
            /\ \A i \in 1..ret.len : NewBytes[i] = 0

ZeroFillWitness ==
    /\ Succeeded("allocate_zeroed")
    /\ call.new.size = 1 /\ ret.len = 2
    /\ env.ans.bytes = <<1, 1>> /\ NewBytes = <<0, 0>>

\* C7: Global.allocate has three outcomes.  A layout of size 0 stops the
\* program at the assertion, before the process allocator is asked, and
\* nothing is returned; a null from the process allocator gives AllocError;
\* otherwise the result is the returned address with length layout.size.
GlobalAllocateOutcomes ==
    (pc = "returned" /\ call.op = "allocate" /\ alloc = "Global") =>
        IF call.new.size = 0
        THEN /\ status = "panic"
             /\ Count(log, "allocate") = 0
             /\ Count(log, "return") = 0
        ELSE /\ status = "running"
             /\ Count(log, "allocate") = 1
             /\ log[1].e = "allocate"
             /\ log[1].ptr = NullPtr => ret = Err
             /\ log[1].ptr # NullPtr => ret = Ok(log[1].ptr, call.new.size)

GlobalAllocateOutcomesWitness ==
    /\ pc = "returned" /\ call.op = "allocate" /\ alloc = "Global"
    /\ call.new.size = 0 /\ status = "panic"

\* C8: no block is released twice, and a successful provided grow,
\* grow_zeroed or shrink allocates once and deallocates once, the old
\* pointer with old_layout: the live blocks after the call are those before
\* it with the old block replaced by the new one, and as many.
BlockLifecycle ==
    /\ \A i \in 1..Len(log) : log[i].e = "deallocate" => log[i].ok
    /\ \A op \in ResizeOps : Succeeded(op) =>
        /\ Count(log, "allocate") = 1
        /\ Count(log, "deallocate") = 1
        /\ \A i \in 1..Len(log) : log[i].e = "deallocate" =>
              log[i].ptr = call.ptr /\ log[i].layout = call.old
        /\ ret.ptr # call.ptr
        /\ Live(heap) = (Live(pre) \ {call.ptr}) \cup {ret.ptr}
        /\ Cardinality(Live(heap)) = Cardinality(Live(pre))

BlockLifecycleWitness ==
    /\ Succeeded("shrink")
    /\ Live(pre) = {call.ptr} /\ Live(heap) = {ret.ptr}
    /\ call.old.size = 2 /\ call.new.size = 1

\* C9: a successful provided grow_zeroed runs allocate, copy, zero the
\* tail, deallocate, return, in that order; grow and shrink run allocate,
\* copy, deallocate, return.  So the old block is read only while it is
\* live, and the new block is handed back after the old one is released.
StepOrdering ==
    /\ Succeeded("grow_zeroed") =>
        Kinds(log) = <<"allocate", "read", "write", "write", "deallocate", "return">>
    /\ (Succeeded("grow") \/ Succeeded("shrink")) =>
        Kinds(log) = <<"allocate", "read", "write", "deallocate", "return">>
    /\ \A op \in ResizeOps : Succeeded(op) =>
        \A i \in 1..Len(log) :
            (log[i].e = "read" /\ log[i].n > 0) => pre[log[i].ptr].live /\ log[i].ptr = call.ptr

StepOrderingWitness ==
    /\ Succeeded("grow_zeroed")
    /\ call.old.size = 1 /\ ret.len = 3
    /\ log[2].ptr = call.ptr /\ log[4].ptr = ret.ptr /\ log[4].off = 1 /\ log[4].n = 2

\* The call c made at reference level via on the heap h, in environment e.
ApplyCall(a, via, h, c, e) ==
    CASE c.op = "allocate" ->
            LET r == Allocate(a, via, Machine(h), c.new, e.ans) IN Done(r.m, r.ret)
      [] c.op = "deallocate" ->
            Done(Deallocate(a, via, Machine(h), c.ptr, c.old), Unit)
      [] c.op = "allocate_zeroed" -> AllocateZeroed(a, via, Machine(h), c.new, e)
      [] c.op = "grow" -> Grow(a, via, Machine(h), c.ptr, c.old, c.new, e)
      [] c.op = "grow_zeroed" -> GrowZeroed(a, via, Machine(h), c.ptr, c.old, c.new, e)
      [] c.op = "shrink" -> Shrink(a, via, Machine(h), c.ptr, c.old, c.new, e)

\* C6: a call made through a reference, at one, two or three levels, gives
\* the result and leaves the heap that the same call on the allocator
\* itself gives and leaves, also when the allocator overrides a provided
\* method.
ReferenceForwarding ==
    (pc = "returned" /\ call.via > 0) =>
        LET d == ApplyCall(alloc, 0, pre, call, env)
        IN  /\ d.ret = ret
            /\ d.m.heap = heap
            /\ d.m.status = status

\* C10: under their size preconditions the provided grow, grow_zeroed and
\* shrink read only offsets [0, old_layout.size) of the old block and write
\* only offsets [0, returned length) of the new block, whatever length the
\* allocator returns; no length they compute is negative.
MemoryAccessBounds ==
    (pc = "returned" /\ call.op \in ResizeOps /\ IsDefault) =>
        \A i \in 1..Len(log) :
            /\ log[i].e = "read" =>
                /\ log[i].ptr = call.ptr
                /\ log[i].off = 0
                /\ log[i].n <= call.old.size
            /\ log[i].e = "write" =>
                /\ log[i].ptr = log[1].ptr
                /\ log[i].off >= 0 /\ log[i].n >= 0
                /\ log[i].off + log[i].n <= log[1].n

\* The part of C10 that concerns grow and grow_zeroed.
GrowAccessBounds ==
    (call.op \in {"grow", "grow_zeroed"}) => MemoryAccessBounds

====
